---- MODULE Spec2Model ----
(***************************************************************************)
(* CryptoPipeline (crypto_pipeline_demo.py): the polling pipeline that     *)
(* fetches listings, flattens them into rows, accumulates them in          *)
(* self.df, aggregates trends and saves / reloads the dataset as CSV.      *)
(*                                                                         *)
(* A DataFrame is [columns, rows]; a row is a function from the columns    *)
(* in which it holds a value to that value, so a NaN cell is a column that *)
(* is absent from the row's DOMAIN.  Prices and percent changes are        *)
(* integers, timestamps are ticks of the wall clock, which never runs      *)
(* backwards.  The HTTP session, the plotting backend and the file system  *)
(* are the environment: a request ends in one of Outcomes, a plot call     *)
(* fails only on a column it is told to read and the frame does not have.  *)
(***************************************************************************)
EXTENDS Integers, Sequences, FiniteSets, TLC

VARIABLES
    df,          \* self.df
    fs,          \* the CSV file of save_to_csv / load_from_csv
    clock,       \* the wall clock read by pd.to_datetime('now')
    call,        \* the operation that ran last, with its arguments
    ret,         \* what that operation returned (or that it raised)
    pc,          \* position inside run_data_collection / main
    i,           \* loop index of run_data_collection
    iterations,  \* argument of run_data_collection
    sleep_interval, \* argument of run_data_collection
    raw_data,    \* local of run_data_collection
    trace        \* history: network attempts, appends and pauses of the run

vars == <<df, fs, clock, call, ret, pc, i, iterations, sleep_interval,
          raw_data, trace>>

-----------------------------------------------------------------------------
(* Bounds *)

\* Largest number of iterations a modelled run_data_collection is given.
MaxIter == 3
\* Largest number of times the client harness reads the wall clock.
MaxClock == 3
\* Largest number of rows the client harness lets the dataset grow to.
MaxRows == 3

-----------------------------------------------------------------------------
(* Sequences *)

RECURSIVE SumSeq(_)
SumSeq(s) == IF s = <<>> THEN 0 ELSE Head(s) + SumSeq(Tail(s))

Range(s) == {s[k] : k \in 1..Len(s)}

\* The distinct elements of s in the order of their first appearance.
RECURSIVE FirstSeen(_)
FirstSeen(s) ==
    IF s = <<>> THEN <<>>
    ELSE LET init == FirstSeen(SubSeq(s, 1, Len(s) - 1))
             last == s[Len(s)]
         IN IF last \in Range(init) THEN init ELSE Append(init, last)

-----------------------------------------------------------------------------
(* DataFrames *)

EmptyFrame == [columns |-> {}, rows |-> <<>>]

\* DataFrame.empty: any axis of length 0.
IsEmpty(d) == Len(d.rows) = 0 \/ d.columns = {}

\* The non-NaN values of column c, in row order.
ColumnValues(d, c) ==
    LET has == SelectSeq(d.rows, LAMBDA r : c \in DOMAIN r)
    IN [k \in 1..Len(has) |-> has[k][c]]

\* pd.concat([a, b], ignore_index=True)
Concat(a, b) == [columns |-> a.columns \cup b.columns, rows |-> a.rows \o b.rows]

-----------------------------------------------------------------------------
(* The listings response *)

Horizons == {"1h", "24h", "7d", "30d", "60d", "90d"}

\* json_normalize's column name for quote[currency][field].
FlatKey(currency, field) == "quote." \o currency \o "." \o field

trend_columns == {FlatKey("USD", "percent_change_" \o h) : h \in Horizons}

\* Percent changes of one quote: one value per horizon in hs, spread around v.
Changes(hs, v) ==
    [f \in {"percent_change_" \o h : h \in hs} |->
        CASE f = "percent_change_1h" -> v
          [] f = "percent_change_24h" -> 2 * v
          [] f = "percent_change_7d" -> 3 * v
          [] f = "percent_change_30d" -> 0 - v
          [] f = "percent_change_60d" -> v + 1
          [] OTHER -> v - 1]

\* A quote object: price plus the percent changes.
QuoteOf(price, changes) ==
    [f \in {"price"} \cup DOMAIN changes |->
        IF f = "price" THEN price ELSE changes[f]]

\* One asset entry of the 'data' list, as the API documents it.
Asset(name, symbol, rank, q) ==
    [name |-> name, symbol |-> symbol, cmc_rank |-> rank, quote |-> [USD |-> q]]

\* The np.random.normal draws of one _get_mock_data call, as one shared draw.
Noise == {-1, 1}

MockBitcoin(noise) ==
    Asset("Bitcoin", "BTC", 1, QuoteOf(45000 + noise, Changes(Horizons, noise)))
MockEthereum(noise) ==
    Asset("Ethereum", "ETH", 2, QuoteOf(3200 + noise, Changes(Horizons, 2 * noise)))
MockTether(noise) ==
    Asset("Tether", "USDT", 3, QuoteOf(1 + noise, Changes(Horizons, 0)))

\* _get_mock_data
GetMockData(noise) ==
    [data |-> <<MockBitcoin(noise), MockEthereum(noise), MockTether(noise)>>]

\* Bodies the endpoint can answer a successful request with.  Market moves
\* between polls are the parameter v.
LiveBodies ==
    {[data |-> <<Asset("Ethereum", "ETH", 2, QuoteOf(3000 + v, Changes(Horizons, v))),
                 Asset("Bitcoin", "BTC", 1, QuoteOf(40000 + v, Changes(Horizons, 3 * v)))>>]
        : v \in {2}}
    \cup {[data |-> <<Asset("Bitcoin", "BTC", 1,
                            QuoteOf(41000, Changes({"1h", "24h"}, 5)))>>],
          \* entries without a quote
          [data |-> <<[name |-> "Bitcoin", symbol |-> "BTC", cmc_rank |-> 1]>>],
          \* entries without a name
          [data |-> <<[symbol |-> "ETH", cmc_rank |-> 2,
                       quote |-> [USD |-> QuoteOf(3100, Changes(Horizons, 1))]]>>],
          \* an empty listing
          [data |-> <<>>],
          \* no 'data' key
          [status |-> "error"],
          \* an empty object
          <<>>}

\* What can happen to the one request of fetch_crypto_data.
Outcomes ==
    {[kind |-> "ok", body |-> b] : b \in LiveBodies}
    \cup {[kind |-> k] : k \in {"RequestException", "JSONDecodeError"}}

-----------------------------------------------------------------------------
(* Results of a call *)

Returned(v) == [raised |-> "no", value |-> v]
Raised(e) == [raised |-> e]

-----------------------------------------------------------------------------
(* fetch_crypto_data *)

FetchRaisesOnParse(outcome, noise) ==
    CASE outcome.kind = "ok" -> Returned(outcome.body)
      [] outcome.kind = "RequestException" -> Returned(GetMockData(noise))
      [] OTHER -> Raised(outcome.kind)

\* One session.get; either except clause answers with the mock data.
FetchCryptoData(outcome, noise) ==
    CASE outcome.kind = "ok" -> Returned(outcome.body)
      [] outcome.kind = "RequestException" -> Returned(GetMockData(noise))
      [] outcome.kind = "JSONDecodeError" -> Returned(GetMockData(noise))

-----------------------------------------------------------------------------
(* process_data *)

\* The (currency, field) pairs of an entry's nested quote.
QuotePaths(e) ==
    IF "quote" \in DOMAIN e
    THEN UNION {{<<c, f>> : f \in DOMAIN e.quote[c]} : c \in DOMAIN e.quote}
    ELSE {}

\* pd.json_normalize of one entry: nested keys become dotted column names.
Flatten(e) ==
    LET top == DOMAIN e \ {"quote"}
        paths == QuotePaths(e)
    IN [k \in top \cup {FlatKey(p[1], p[2]) : p \in paths} |->
          IF k \in top THEN e[k]
          ELSE LET p == CHOOSE q \in paths : FlatKey(q[1], q[2]) = k
               IN e.quote[p[1]][p[2]]]

\* pd.json_normalize of the 'data' list.
JsonNormalize(entries) ==
    LET rows == [k \in 1..Len(entries) |-> Flatten(entries[k])]
    IN [columns |-> UNION {DOMAIN rows[k] : k \in 1..Len(entries)}, rows |-> rows]

\* df_new['timestamp'] = now
WithTimestamp(d, now) ==
    [columns |-> d.columns \cup {"timestamp"},
     rows |-> [k \in 1..Len(d.rows) |->
                 [c \in DOMAIN d.rows[k] \cup {"timestamp"} |->
                     IF c = "timestamp" THEN now ELSE d.rows[k][c]]]]

\* bool(data) of a dict
Truthy(data) == DOMAIN data # {}

ProcessDataReversed(data, now) ==
    IF ~Truthy(data) \/ "data" \notin DOMAIN data THEN EmptyFrame
    ELSE LET n == JsonNormalize(data.data)
         IN WithTimestamp([columns |-> n.columns,
                           rows |-> [k \in 1..Len(n.rows) |-> n.rows[Len(n.rows) + 1 - k]]],
                          now)

ProcessData(data, now) ==
    IF ~Truthy(data) \/ "data" \notin DOMAIN data THEN EmptyFrame
    ELSE WithTimestamp(JsonNormalize(data.data), now)

-----------------------------------------------------------------------------
(* append_data *)

AppendDataPrepending(d, new_data) ==
    IF IsEmpty(new_data) THEN [df |-> d, object |-> "self.df"]
    ELSE IF IsEmpty(d) THEN [df |-> new_data, object |-> "copy"]
    ELSE [df |-> Concat(new_data, d), object |-> "concat"]

\* The dataset after self.append_data(new_data), and which object self.df then
\* is: the one it was, a copy of new_data, or the frame pd.concat built.
AppendData(d, new_data) ==
    IF IsEmpty(new_data) THEN [df |-> d, object |-> "self.df"]
    ELSE IF IsEmpty(d) THEN [df |-> new_data, object |-> "copy"]
    ELSE [df |-> Concat(d, new_data), object |-> "concat"]

-----------------------------------------------------------------------------
(* CSV text: a cell is a sequence of characters, a NaN cell is empty *)

DigitChars == <<"0", "1", "2", "3", "4", "5", "6", "7", "8", "9">>

RECURSIVE NatText(_)
NatText(n) ==
    IF n < 10 THEN <<DigitChars[n + 1]>>
    ELSE NatText(n \div 10) \o <<DigitChars[(n % 10) + 1]>>

\* str of a number
NumText(n) == IF n < 0 THEN <<"-">> \o NatText(0 - n) ELSE NatText(n)

\* The date-time text of a timestamp: a date part, then the ticks in full.
FormatTimestamp(t) == <<"T">> \o NatText(t)

DigitValue(ch) == (CHOOSE k \in 1..10 : DigitChars[k] = ch) - 1

RECURSIVE ParseNat(_)
ParseNat(text) ==
    IF Len(text) = 1 THEN DigitValue(text[1])
    ELSE 10 * ParseNat(SubSeq(text, 1, Len(text) - 1)) + DigitValue(text[Len(text)])

IsNatText(text) == Len(text) > 0 /\ \A k \in 1..Len(text) : text[k] \in Range(DigitChars)

IsNumText(text) ==
    \/ IsNatText(text)
    \/ Len(text) > 1 /\ text[1] = "-" /\ IsNatText(Tail(text))

ParseNum(text) == IF text[1] = "-" THEN 0 - ParseNat(Tail(text)) ELSE ParseNat(text)

\* pd.to_datetime of one date-time text
ParseTimestamp(text) == ParseNat(Tail(text))

\* Columns json_normalize fills with strings.
StringColumns == {"name", "symbol"}

CellText(r, c) ==
    IF c \notin DOMAIN r THEN <<>>
    ELSE IF c = "timestamp" THEN FormatTimestamp(r[c])
    ELSE IF c \in StringColumns THEN <<r[c]>>
    ELSE NumText(r[c])

\* DataFrame.to_csv(index=False): the header row, then one line per row.
ToCsv(d) ==
    [exists |-> TRUE, header |-> d.columns,
     lines |-> [k \in 1..Len(d.rows) |-> [c \in d.columns |-> CellText(d.rows[k], c)]]]

\* read_csv's value of one cell: a number where the text is one, else the string.
ParseCell(text) ==
    IF IsNumText(text) THEN ParseNum(text)
    ELSE IF Len(text) = 1 THEN text[1]
    ELSE text

\* pd.read_csv
ReadCsv(file) ==
    [columns |-> file.header,
     rows |-> [k \in 1..Len(file.lines) |->
                 [c \in {h \in file.header : file.lines[k][h] # <<>>} |->
                     ParseCell(file.lines[k][c])]]]

\* self.df['timestamp'] = pd.to_datetime(self.df['timestamp'])
ToDatetime(d) ==
    [columns |-> d.columns,
     rows |-> [k \in 1..Len(d.rows) |->
                 [c \in DOMAIN d.rows[k] |->
                     IF c = "timestamp" THEN ParseTimestamp(d.rows[k][c])
                     ELSE d.rows[k][c]]]]

NoFile == [exists |-> FALSE, header |-> {}, lines |-> <<>>]

-----------------------------------------------------------------------------
(* save_to_csv, load_from_csv *)

SaveTruncatingTimestamps(d, file) ==
    IF IsEmpty(d) THEN file
    ELSE ToCsv([columns |-> d.columns,
                rows |-> [k \in 1..Len(d.rows) |->
                            [c \in DOMAIN d.rows[k] |->
                                IF c = "timestamp" THEN 0 ELSE d.rows[k][c]]]])

\* The file after self.save_to_csv(): untouched when the dataset is empty.
SaveToCsv(d, file) == IF IsEmpty(d) THEN file ELSE ToCsv(d)

LoadAppending(d, file) ==
    IF file.exists
    THEN [df |-> Concat(d, ToDatetime(ReadCsv(file))), ret |-> Returned("loaded")]
    ELSE [df |-> EmptyFrame, ret |-> Returned("not found")]

\* self.df and the outcome after self.load_from_csv().
LoadFromCsv(d, file) ==
    IF file.exists
    THEN LET loaded == ReadCsv(file)
         IN IF "timestamp" \in loaded.columns
            THEN [df |-> ToDatetime(loaded), ret |-> Returned("loaded")]
            ELSE [df |-> loaded, ret |-> Raised("KeyError")]
    ELSE [df |-> d, ret |-> Returned("not found")]

-----------------------------------------------------------------------------
(* analyze_price_trends *)

\* pd.DataFrame() as a result of the aggregation.
EmptyTrend == [index |-> <<>>, columns |-> {}, mean |-> <<>>]

TrendIsEmpty(t) == Len(t.index) = 0 \/ t.columns = {}

\* Series.mean(): the sum of the non-NaN values over their number (NaN if none).
Mean(vals) == [sum |-> SumSeq(vals), count |-> Len(vals)]

\* DataFrame.groupby(by, sort=False)[cols].mean(): rows whose key is NaN are
\* dropped, groups come in the order their keys first appear.
GroupByMean(d, by, cols) ==
    LET keyed == SelectSeq(d.rows, LAMBDA r : by \in DOMAIN r)
        index == FirstSeen([k \in 1..Len(keyed) |-> keyed[k][by]])
        group(n) == [columns |-> d.columns,
                     rows |-> SelectSeq(keyed, LAMBDA r : r[by] = n)]
    IN [index |-> index, columns |-> cols,
        mean |-> [n \in Range(index) |->
                    [c \in cols |-> Mean(ColumnValues(group(n), c))]]]

AnalyzePriceTrends(d) ==
    IF IsEmpty(d) THEN Returned(EmptyTrend)
    ELSE LET available_columns == trend_columns \cap d.columns
         IN IF available_columns = {} THEN Returned(EmptyTrend)
            ELSE IF "name" \notin d.columns THEN Raised("KeyError")
            ELSE Returned(GroupByMean(d, "name", available_columns))

-----------------------------------------------------------------------------
(* get_summary_stats *)

MinOf(s) == CHOOSE m \in Range(s) : \A x \in Range(s) : m <= x
MaxOf(s) == CHOOSE m \in Range(s) : \A x \in Range(s) : m >= x

CountOf(s, x) == Len(SelectSeq(s, LAMBDA y : y = x))

\* Series.value_counts().head(): the five most frequent values with their counts.
TopCounts(s) ==
    LET all == Range(s)
        top == CHOOSE t \in SUBSET all :
                  /\ Cardinality(t) = IF Cardinality(all) < 5 THEN Cardinality(all) ELSE 5
                  /\ \A x \in t, y \in all \ t : CountOf(s, x) >= CountOf(s, y)
    IN [x \in top |-> CountOf(s, x)]

GetSummaryStats(d) ==
    IF IsEmpty(d) THEN Returned([message |-> "No data available"])
    ELSE LET names == ColumnValues(d, "name")
             times == ColumnValues(d, "timestamp")
         IN Returned(
              [total_records |-> Len(d.rows),
               unique_cryptocurrencies |->
                   IF "name" \in d.columns THEN Cardinality(Range(names)) ELSE 0,
               start |-> IF "timestamp" \in d.columns
                         THEN FormatTimestamp(MinOf(times)) ELSE <<"N/A">>,
               end |-> IF "timestamp" \in d.columns
                       THEN FormatTimestamp(MaxOf(times)) ELSE <<"N/A">>,
               top_cryptocurrencies |->
                   IF "name" \in d.columns THEN TopCounts(names) ELSE <<>>])

-----------------------------------------------------------------------------
(* visualize_trends, visualize_bitcoin_price *)

\* self.visualize_trends(save_plot): what was shown, and the image file saved.
VisualizeTrends(d, save_plot) ==
    IF IsEmpty(d) THEN [ret |-> Returned("no data"), df |-> d]
    ELSE LET trend_data == AnalyzePriceTrends(d)
         IN IF trend_data.raised # "no" THEN [ret |-> trend_data, df |-> d]
            ELSE IF TrendIsEmpty(trend_data.value)
            THEN [ret |-> Returned("no trend data"), df |-> d]
            ELSE [ret |-> Returned(IF save_plot THEN "crypto_trends.png" ELSE "shown"),
                  df |-> d]

\* self.df[self.df['name'] == 'Bitcoin'].copy()
BitcoinData(d) ==
    [columns |-> d.columns,
     rows |-> SelectSeq(d.rows, LAMBDA r : "name" \in DOMAIN r /\ r["name"] = "Bitcoin")]

VisualizeBitcoinFiltering(d, save_plot) ==
    IF IsEmpty(d) THEN [ret |-> Returned("no data"), df |-> d]
    ELSE IF "name" \notin d.columns THEN [ret |-> Raised("KeyError"), df |-> d]
    ELSE [ret |-> Returned("shown"), df |-> BitcoinData(d)]

\* self.visualize_bitcoin_price(save_plot): what was shown, the image file
\* saved, and self.df afterwards (the plot works on a copy of the Bitcoin rows).
VisualizeBitcoinPrice(d, save_plot) ==
    IF IsEmpty(d) THEN [ret |-> Returned("no data"), df |-> d]
    ELSE IF "name" \notin d.columns THEN [ret |-> Raised("KeyError"), df |-> d]
    ELSE IF IsEmpty(BitcoinData(d)) THEN [ret |-> Returned("no Bitcoin data"), df |-> d]
    ELSE IF {"timestamp", "quote.USD.price"} \subseteq d.columns
    THEN [ret |-> Returned(IF save_plot THEN "bitcoin_price.png" ELSE "shown"), df |-> d]
    ELSE [ret |-> Raised("ValueError"), df |-> d]

-----------------------------------------------------------------------------
(* main, step 3: the data sample *)

SampleColumns == {"name", "symbol", "quote.USD.price", "timestamp"}

\* print(pipeline.df[['name', 'symbol', 'quote.USD.price', 'timestamp']].head(10))
PrintSample(d) ==
    IF IsEmpty(d) THEN Returned("skipped")
    ELSE IF SampleColumns \subseteq d.columns THEN Returned("printed")
    ELSE Raised("KeyError")

-----------------------------------------------------------------------------
(* A client calling the public methods of one CryptoPipeline, one at a time *)

\* Everything fetch_crypto_data can hand to its caller.
FetchResults == {FetchCryptoData(o, n).value : o \in Outcomes, n \in Noise}

\* CSV files an earlier run can have left behind.
PriorFiles ==
    {NoFile,
     ToCsv(ProcessData(GetMockData(1), 0)),
     ToCsv(ProcessData([data |-> <<[name |-> "Bitcoin", symbol |-> "BTC",
                                    cmc_rank |-> 1]>>], 0))}

runVars == <<pc, i, iterations, sleep_interval, raw_data, trace>>

\* CryptoPipeline.__init__: an empty dataset.
Init ==
    /\ df = EmptyFrame
    /\ fs \in PriorFiles
    /\ clock = 0
    /\ call = [op |-> "__init__"]
    /\ ret = Returned("none")
    /\ pc = "client"
    /\ i = 0
    /\ iterations = 0
    /\ sleep_interval = 0
    /\ raw_data = <<>>
    /\ trace = <<>>

CallFetch ==
    /\ pc = "client"
    /\ \E outcome \in Outcomes, noise \in Noise :
          /\ call' = [op |-> "fetch_crypto_data", outcome |-> outcome]
          /\ ret' = FetchCryptoData(outcome, noise)
    /\ UNCHANGED <<df, fs, clock, runVars>>

\* The wall clock is one tick further at every reading.
CallProcess ==
    /\ pc = "client"
    /\ clock < MaxClock
    /\ \E data \in FetchResults :
          /\ call' = [op |-> "process_data", data |-> data, now |-> clock]
          /\ ret' = Returned(ProcessData(data, clock))
    /\ clock' = clock + 1
    /\ UNCHANGED <<df, fs, runVars>>

\* append_data of a batch that process_data has just built.
CallAppend ==
    /\ pc = "client"
    /\ clock < MaxClock
    /\ \E data \in FetchResults :
          LET new_data == ProcessData(data, clock)
              after == AppendData(df, new_data)
          IN /\ Len(df.rows) + Len(new_data.rows) <= MaxRows
             /\ df' = after.df
             /\ call' = [op |-> "append_data", D |-> df, new_data |-> new_data]
             /\ ret' = Returned(after.object)
    /\ clock' = clock + 1
    /\ UNCHANGED <<fs, runVars>>

CallSave ==
    /\ pc = "client"
    /\ fs' = SaveToCsv(df, fs)
    /\ call' = [op |-> "save_to_csv", D |-> df, before |-> fs]
    /\ ret' = Returned(IF IsEmpty(df) THEN "No data to save" ELSE "saved")
    /\ UNCHANGED <<df, clock, runVars>>

CallLoad ==
    /\ pc = "client"
    /\ LET after == LoadFromCsv(df, fs)
       IN /\ df' = after.df
          /\ ret' = after.ret
    /\ call' = [op |-> "load_from_csv", D |-> df, previous |-> call.op]
    /\ UNCHANGED <<fs, clock, runVars>>

CallAnalyze ==
    /\ pc = "client"
    /\ call' = [op |-> "analyze_price_trends"]
    /\ ret' = AnalyzePriceTrends(df)
    /\ UNCHANGED <<df, fs, clock, runVars>>

CallStats ==
    /\ pc = "client"
    /\ call' = [op |-> "get_summary_stats"]
    /\ ret' = GetSummaryStats(df)
    /\ UNCHANGED <<df, fs, clock, runVars>>

CallVisualizeTrends ==
    /\ pc = "client"
    /\ \E save_plot \in BOOLEAN :
          LET after == VisualizeTrends(df, save_plot)
          IN /\ ret' = after.ret
             /\ df' = after.df
    /\ call' = [op |-> "visualize_trends"]
    /\ UNCHANGED <<fs, clock, runVars>>

CallVisualizeBitcoin ==
    /\ pc = "client"
    /\ \E save_plot \in BOOLEAN :
          LET after == VisualizeBitcoinPrice(df, save_plot)
          IN /\ ret' = after.ret
             /\ df' = after.df
    /\ call' = [op |-> "visualize_bitcoin_price"]
    /\ UNCHANGED <<fs, clock, runVars>>

\* The dataset operations, called in any order.
Next ==
    \/ CallAppend
    \/ CallSave
    \/ CallLoad
    \/ CallAnalyze
    \/ CallStats
    \/ CallVisualizeTrends
    \/ CallVisualizeBitcoin

Spec == Init /\ [][Next]_vars

\* The collection path: fetch, normalize, append.
NextCollect ==
    \/ CallFetch
    \/ CallProcess
    \/ CallAppend

SpecCollect == Init /\ [][NextCollect]_vars

-----------------------------------------------------------------------------
(* run_data_collection, one step per statement group of its loop *)

\* Sleep intervals a modelled run is given.
SleepIntervals == {0, 1}

\* One entry of the history: what happened, how many rows it yielded, and for
\* a network attempt how the request ended.
Event(ev, rows, kind) == [ev |-> ev, rows |-> rows, kind |-> kind]

SleepsAfterEvery(index, n) == TRUE

\* if i < iterations - 1: no sleep after the last iteration.
SleepsAfter(index, n) == index < n - 1

InitRun ==
    /\ df = EmptyFrame
    /\ fs = NoFile
    /\ clock = 0
    /\ call = [op |-> "run_data_collection"]
    /\ ret = Returned("none")
    /\ pc = "loop"
    /\ i = 0
    /\ iterations \in 0..MaxIter
    /\ sleep_interval \in SleepIntervals
    /\ raw_data = <<>>
    /\ trace = <<>>

\* raw_data = self.fetch_crypto_data()
RunFetch ==
    /\ pc = "loop"
    /\ i < iterations
    /\ \E outcome \in Outcomes, noise \in Noise :
          LET fetched == FetchCryptoData(outcome, noise)
          IN /\ IF fetched.raised = "no"
                THEN /\ raw_data' = fetched.value
                     /\ pc' = "collect"
                     /\ ret' = ret
                ELSE /\ raw_data' = raw_data
                     /\ pc' = "crashed"
                     /\ ret' = fetched
             /\ trace' = Append(trace, Event("attempt", 0, outcome.kind))
    /\ UNCHANGED <<df, fs, clock, call, i, iterations, sleep_interval>>

\* if raw_data: process_data and append_data; else "Failed to collect data".
RunCollect ==
    /\ pc = "collect"
    /\ IF Truthy(raw_data)
       THEN LET processed_data == ProcessData(raw_data, clock)
            IN /\ df' = AppendData(df, processed_data).df
               /\ trace' = Append(trace, Event("append", Len(processed_data.rows), ""))
       ELSE /\ df' = df
            /\ trace' = Append(trace, Event("failed", 0, ""))
    /\ IF SleepsAfter(i, iterations)
       THEN pc' = "sleep" /\ i' = i
       ELSE pc' = "loop" /\ i' = i + 1
    /\ UNCHANGED <<fs, clock, call, ret, iterations, sleep_interval, raw_data>>

\* time.sleep(sleep_interval)
RunSleep ==
    /\ pc = "sleep"
    /\ clock' = clock + sleep_interval
    /\ trace' = Append(trace, Event("pause", 0, ""))
    /\ pc' = "loop"
    /\ i' = i + 1
    /\ UNCHANGED <<df, fs, call, ret, iterations, sleep_interval, raw_data>>

\* The loop is over: back to the caller.
RunEnd ==
    /\ pc = "loop"
    /\ i >= iterations
    /\ pc' = IF call.op = "main" THEN "stats" ELSE "done"
    /\ UNCHANGED <<df, fs, clock, call, ret, i, iterations, sleep_interval,
                   raw_data, trace>>

NextRun ==
    \/ RunFetch
    \/ RunCollect
    \/ RunSleep
    \/ RunEnd

SpecRun == InitRun /\ [][NextRun]_vars

-----------------------------------------------------------------------------
(* main *)

MainIterations == 3
MainSleepInterval == 2

\* pipeline = CryptoPipeline(); pipeline.run_data_collection(iterations=3,
\* sleep_interval=2)
InitMain ==
    /\ df = EmptyFrame
    /\ fs \in PriorFiles
    /\ clock = 0
    /\ call = [op |-> "main"]
    /\ ret = Returned("none")
    /\ pc = "loop"
    /\ i = 0
    /\ iterations = MainIterations
    /\ sleep_interval = MainSleepInterval
    /\ raw_data = <<>>
    /\ trace = <<>>

\* After a step of main that returned r: on to the next step, or out of main
\* with the exception nobody catches.
Continue(r, next) == IF r.raised = "no" THEN next ELSE "crashed"

mainFrame == <<df, fs, clock, call, i, iterations, sleep_interval, raw_data, trace>>

\* 2. stats = pipeline.get_summary_stats()
MainStats ==
    /\ pc = "stats"
    /\ ret' = GetSummaryStats(df)
    /\ pc' = Continue(ret', "sample")
    /\ UNCHANGED mainFrame

\* 3. the data sample
MainSample ==
    /\ pc = "sample"
    /\ ret' = PrintSample(df)
    /\ pc' = Continue(ret', "trends")
    /\ UNCHANGED mainFrame

\* 4. trend_analysis = pipeline.analyze_price_trends()
MainTrends ==
    /\ pc = "trends"
    /\ ret' = AnalyzePriceTrends(df)
    /\ pc' = Continue(ret', "visualize_trends")
    /\ UNCHANGED mainFrame

\* 5. pipeline.visualize_trends(save_plot=True)
MainVisualizeTrends ==
    /\ pc = "visualize_trends"
    /\ LET after == VisualizeTrends(df, TRUE)
       IN /\ ret' = after.ret
          /\ df' = after.df
    /\ pc' = Continue(ret', "visualize_bitcoin_price")
    /\ UNCHANGED <<fs, clock, call, i, iterations, sleep_interval, raw_data, trace>>

\* pipeline.visualize_bitcoin_price(save_plot=True)
MainVisualizeBitcoin ==
    /\ pc = "visualize_bitcoin_price"
    /\ LET after == VisualizeBitcoinPrice(df, TRUE)
       IN /\ ret' = after.ret
          /\ df' = after.df
    /\ pc' = Continue(ret', "save")
    /\ UNCHANGED <<fs, clock, call, i, iterations, sleep_interval, raw_data, trace>>

\* 6. pipeline.save_to_csv('crypto_pipeline_demo_data.csv'), then the closing banner
MainSave ==
    /\ pc = "save"
    /\ fs' = SaveToCsv(df, fs)
    /\ ret' = Returned(IF IsEmpty(df) THEN "No data to save" ELSE "saved")
    /\ pc' = "completed"
    /\ UNCHANGED <<df, clock, call, i, iterations, sleep_interval, raw_data, trace>>

NextMain ==
    \/ RunFetch
    \/ RunCollect
    \/ RunSleep
    \/ RunEnd
    \/ MainStats
    \/ MainSample
    \/ MainTrends
    \/ MainVisualizeTrends
    \/ MainVisualizeBitcoin
    \/ MainSave

SpecMain == InitMain /\ [][NextMain]_vars

-----------------------------------------------------------------------------
(* Claims about the collection path, under SpecCollect *)

FetchFailures == {"RequestException", "JSONDecodeError"}

(* C2: whenever the request of fetch_crypto_data fails or its body cannot be
   parsed, the call does not raise and returns the mock data: exactly three
   records named Bitcoin, Ethereum, Tether with ranks 1, 2, 3, in that order,
   the same for both kinds of failure. *)
FallbackOnFailure ==
    (call.op = "fetch_crypto_data" /\ call.outcome.kind \in FetchFailures) =>
        /\ ret.raised = "no"
        /\ DOMAIN ret.value = {"data"}
        /\ Len(ret.value.data) = 3
        /\ [k \in 1..3 |-> ret.value.data[k].name] = <<"Bitcoin", "Ethereum", "Tether">>
        /\ [k \in 1..3 |-> ret.value.data[k].cmc_rank] = <<1, 2, 3>>

\* A body that could not be parsed was answered with the mock data.
FallbackOnFailureWitness ==
    /\ call.op = "fetch_crypto_data"
    /\ call.outcome.kind = "JSONDecodeError"
    /\ ret.raised = "no"
    /\ Len(ret.value.data) = 3

(* C9: for a fetch result whose 'data' list has K entries, process_data yields
   exactly K rows, row k carrying the fields of entry k, all K with one and the
   same timestamp (the clock reading of the call); for a result that is empty
   or has no 'data' key it yields an empty frame and does not fail. *)
ProcessYieldsOneRowPerEntry ==
    call.op = "process_data" =>
        /\ ret.raised = "no"
        /\ IF DOMAIN call.data # {} /\ "data" \in DOMAIN call.data
           THEN LET entries == call.data.data
                    rows == ret.value.rows
                IN /\ Len(rows) = Len(entries)
                   /\ \A k \in 1..Len(entries) :
                         /\ \A key \in DOMAIN entries[k] \ {"quote"} :
                               key \in DOMAIN rows[k] /\ rows[k][key] = entries[k][key]
                         /\ "quote" \in DOMAIN entries[k] =>
                               \A f \in DOMAIN entries[k].quote.USD :
                                  rows[k][FlatKey("USD", f)] = entries[k].quote.USD[f]
                         /\ rows[k]["timestamp"] = call.now
                   /\ \A j, k \in 1..Len(rows) :
                         rows[j]["timestamp"] = rows[k]["timestamp"]
           ELSE Len(ret.value.rows) = 0

\* A list of two different entries was normalized.
ProcessYieldsOneRowPerEntryWitness ==
    /\ call.op = "process_data"
    /\ "data" \in DOMAIN call.data
    /\ Len(call.data.data) = 2
    /\ Len(ret.value.rows) = 2
    /\ ret.value.rows[1]["name"] # ret.value.rows[2]["name"]

(* C6: append_data(B) on a dataset D leaves the rows of D in their order
   followed by the rows of B in their order; the dataset is unchanged when B
   is empty, and when D is empty it equals B and is a copy of B, not the
   object B itself. *)
AppendIsConcatenation ==
    call.op = "append_data" =>
        /\ df.rows = call.D.rows \o call.new_data.rows
        /\ Len(call.new_data.rows) = 0 => df = call.D /\ ret.value = "self.df"
        /\ (Len(call.D.rows) = 0 /\ Len(call.new_data.rows) > 0) =>
              df = call.new_data /\ ret.value = "copy"
        /\ ret.value # "new_data"

\* A non-empty batch was appended to a non-empty dataset.
AppendIsConcatenationWitness ==
    /\ call.op = "append_data"
    /\ Len(call.D.rows) > 0
    /\ Len(call.new_data.rows) > 0
    /\ call.D.rows[1] # call.new_data.rows[1]

-----------------------------------------------------------------------------
(* Claims about the dataset operations, under Spec *)

AfterSave == call.op = "load_from_csv" /\ call.previous = "save_to_csv"

(* C4, as claimed: for every dataset D and every prior content of the file,
   save_to_csv writes the full collection, one line per record, and a
   load_from_csv that follows makes the dataset equal to D in count, order and
   values. *)
SaveLoadRoundTrip ==
    AfterSave =>
        /\ Len(fs.lines) = Len(call.D.rows)
        /\ df = call.D

(* C4, amended: for every non-empty dataset D and every prior content of the
   file, save_to_csv writes the full collection, one line per record, and a
   load_from_csv that follows makes the dataset equal to D in count, order and
   values, timestamps included. *)
SaveLoadRoundTripNonEmpty ==
    (AfterSave /\ ~IsEmpty(call.D)) =>
        /\ fs.exists
        /\ fs.header = call.D.columns
        /\ Len(fs.lines) = Len(call.D.rows)
        /\ df = call.D

\* A dataset of rows of different shapes, stamped at different times, came back
\* from the file that had held something else.
SaveLoadRoundTripWitness ==
    /\ AfterSave
    /\ Len(call.D.rows) >= 2
    /\ DOMAIN call.D.rows[1] # DOMAIN call.D.rows[2]
    /\ call.D.rows[2]["timestamp"] > call.D.rows[1]["timestamp"]
    /\ df = call.D

(* C5: load_from_csv of a file that does not exist only reports it (no
   exception) and leaves the dataset as it was, whatever it held; of a file
   that exists, it leaves the dataset holding exactly the file's lines, none
   of its previous rows. *)
LoadMissingOrReplace ==
    call.op = "load_from_csv" =>
        IF fs.exists
        THEN ToCsv(df) = fs
        ELSE ret.raised = "no" /\ ret.value = "not found" /\ df = call.D

\* The file was missing while the dataset held rows.
LoadMissingOrReplaceWitness ==
    /\ call.op = "load_from_csv"
    /\ ~fs.exists
    /\ Len(call.D.rows) > 0
    /\ df = call.D

BatchAdded ==
    /\ call'.op = "append_data"
    /\ Len(call'.new_data.rows) > 0
    /\ df'.rows = df.rows \o call'.new_data.rows

(* C7, as claimed: only append_data changes the dataset, and each change adds
   one whole batch at the end. *)
OnlyAppendMutates == [][df' # df => BatchAdded]_vars

(* C7, amended: only append_data and load_from_csv change the dataset; no
   other operation does.  Each change by append_data adds one whole batch at
   the end, each change by load_from_csv replaces the dataset by the lines of
   the file. *)
OnlyAppendAndLoadMutate ==
    [][df' # df =>
          \/ BatchAdded
          \/ call'.op = "load_from_csv" /\ fs.exists /\ ToCsv(df') = fs]_vars

\* load_from_csv has replaced a dataset by a different one.
OnlyAppendAndLoadMutateWitness ==
    /\ call.op = "load_from_csv"
    /\ Len(call.D.rows) > 0
    /\ df # call.D

-----------------------------------------------------------------------------
(* analyze_price_trends, under Spec *)

\* Rows of the dataset that belong to asset n / that also hold a value in c.
RowsOf(n) == {k \in 1..Len(df.rows) : "name" \in DOMAIN df.rows[k] /\ df.rows[k]["name"] = n}
RowsWith(n, c) == {k \in RowsOf(n) : c \in DOMAIN df.rows[k]}

RECURSIVE SumAt(_, _)
SumAt(S, c) ==
    IF S = {} THEN 0
    ELSE LET k == CHOOSE x \in S : TRUE IN df.rows[k][c] + SumAt(S \ {k}, c)

FirstRowOf(n) == CHOOSE k \in RowsOf(n) : \A j \in RowsOf(n) : k <= j

\* The result t is the aggregation the claim describes.
TrendsMatch(t) ==
    LET names == {df.rows[k]["name"] : k \in {j \in 1..Len(df.rows) : "name" \in DOMAIN df.rows[j]}}
        present == trend_columns \cap df.columns
    IN IF Len(df.rows) = 0 \/ present = {}
       THEN TrendIsEmpty(t)
       ELSE /\ t.columns = present
            /\ Range(t.index) = names
            /\ Len(t.index) = Cardinality(names)
            /\ \A a, b \in 1..Len(t.index) :
                  a < b => FirstRowOf(t.index[a]) < FirstRowOf(t.index[b])
            /\ \A n \in names, c \in present :
                  /\ t.mean[n][c].count = Cardinality(RowsWith(n, c))
                  /\ t.mean[n][c].sum = SumAt(RowsWith(n, c), c)
                  /\ (Cardinality(RowsOf(n)) = 1 /\ RowsWith(n, c) # {}) =>
                        /\ t.mean[n][c].count = 1
                        /\ t.mean[n][c].sum = df.rows[FirstRowOf(n)][c]

(* C8: analyze_price_trends returns one entry per distinct asset name, in the
   order the names first appear, holding for each percent-change column of the
   dataset the mean of that column over the asset's rows (equal to the row's
   own values when the asset has one row); the result is empty when the
   dataset is empty or has none of the six columns. *)
TrendsPerAsset ==
    call.op = "analyze_price_trends" => ret.raised = "no" /\ TrendsMatch(ret.value)

\* Whenever analyze_price_trends returns, its result is the aggregation of C8.
TrendsPerAssetIfReturned ==
    (call.op = "analyze_price_trends" /\ ret.raised = "no") => TrendsMatch(ret.value)

\* analyze_price_trends returns on every dataset that has a name column.
TrendsReturnsIfNamed ==
    (call.op = "analyze_price_trends" /\ "name" \in df.columns) => ret.raised = "no"

\* An asset with two rows, a second asset, and the later-sorting name first.
TrendsPerAssetIfReturnedWitness ==
    /\ call.op = "analyze_price_trends"
    /\ ret.raised = "no"
    /\ ret.value.index = <<"Ethereum", "Bitcoin">>
    /\ Cardinality(RowsOf("Bitcoin")) = 2

-----------------------------------------------------------------------------
(* Claims about run_data_collection, under SpecRun *)

Timestamps(d) == [k \in 1..Len(d.rows) |-> d.rows[k]["timestamp"]]

NonDecreasing(s) == \A j, k \in 1..Len(s) : j <= k => s[j] <= s[k]

\* What each finished iteration yielded, in order.
Yields ==
    LET done == SelectSeq(trace, LAMBDA e : e.ev \in {"append", "failed"})
    IN [k \in 1..Len(done) |-> done[k].rows]

(* C1: in a run that starts from an empty dataset, the timestamps read in row
   order are non-decreasing after every step, and once n iterations have each
   yielded k records the dataset holds exactly n * k records. *)
RunAccumulatesInOrder ==
    /\ NonDecreasing(Timestamps(df))
    /\ pc = "done" =>
          /\ Len(Yields) = iterations
          /\ \A k \in Range(Yields) :
                (\A j \in 1..Len(Yields) : Yields[j] = k) =>
                    Len(df.rows) = iterations * k

\* Three iterations of three records each: nine rows, the last stamped later
\* than the first.
RunAccumulatesInOrderWitness ==
    /\ pc = "done"
    /\ iterations = 3
    /\ Yields = <<3, 3, 3>>
    /\ Len(df.rows) = 9
    /\ df.rows[1]["timestamp"] < df.rows[9]["timestamp"]

\* The network attempts and pauses of the run, in order.
AttemptsAndPauses == SelectSeq(trace, LAMBDA e : e.ev \in {"attempt", "pause"})

CountOfEvent(ev) == Len(SelectSeq(trace, LAMBDA e : e.ev = ev))

(* C10: a run of n >= 1 iterations makes exactly n network attempts, one per
   iteration also when an attempt fails, and exactly n - 1 pauses, strictly
   alternating attempt, pause, attempt, ...; a pause comes only after the
   iteration's append (or its report that nothing was collected) and before
   the next attempt, never after the last iteration. *)
OneAttemptPerIteration ==
    /\ \A k \in 1..Len(AttemptsAndPauses) :
          AttemptsAndPauses[k].ev = IF k % 2 = 1 THEN "attempt" ELSE "pause"
    /\ \A k \in 1..Len(trace) :
          trace[k].ev = "pause" =>
              /\ k > 2
              /\ trace[k - 1].ev \in {"append", "failed"}
              /\ trace[k - 2].ev = "attempt"
    /\ CountOfEvent("attempt") <= iterations
    /\ (pc = "done" /\ iterations >= 1) =>
          /\ CountOfEvent("attempt") = iterations
          /\ CountOfEvent("pause") = iterations - 1
          /\ trace[Len(trace)].ev # "pause"

\* A run of three iterations whose second request failed has ended.
OneAttemptPerIterationWitness ==
    /\ pc = "done"
    /\ iterations = 3
    /\ CountOfEvent("attempt") = 3
    /\ CountOfEvent("pause") = 2
    /\ AttemptsAndPauses[3].kind = "RequestException"

-----------------------------------------------------------------------------
(* Claims about main, under SpecMain *)

(* C3: no error is fatal: whatever the three fetches bring, main reaches the
   end of its sequence and no step of it fails with an exception nobody
   catches. *)
MainNeverFails == pc # "crashed"

\* main can reach its closing banner.
MainCompleted == pc = "completed"

====
